---- MODULE Spec2Model ----
(***************************************************************************)
(* yogen-nikki backend (src/unnamed/part_000): entities, domain services, the  *)
(* in-memory and the MongoDB repositories, the four usecase interactors    *)
(* and the controller's PostEntity -> PostDTO mapping.                     *)
(*                                                                         *)
(* A store (a JavaScript Map or a MongoDB collection) is a sequence of     *)
(* documents in insertion order.  A MongoDB operation whose promise the    *)
(* repository does not await is a message in flight: it sits in `pending`  *)
(* until the server applies it.                                            *)
(***************************************************************************)
EXTENDS Integers, Sequences, FiniteSets, Bags, TLC

VARIABLES
    backend,   \* which repository pair is registered: "memory" or "mongodb"
    users,     \* the user store
    posts,     \* the post store
    pending,   \* bag of post-collection operations issued but not yet applied
    issued,    \* identifiers createV4Uuid has returned so far
    now,       \* new Date(), in milliseconds since the epoch
    created,   \* history: the posts AddNewPost created, as <<id, owner>> pairs
    calls,     \* the EditPost call of each concurrent caller: how far it got
    last       \* history: the most recent step, its input and its outcome

vars == <<backend, users, posts, pending, issued, now, created, calls, last>>

----------------------------------------------------------------------------
(* Bounds *)

MaxUuid == 2
MaxPending == 1
MaxTicks == 1

----------------------------------------------------------------------------
(* Values *)

\* JavaScript null (never the value of a string the callers pass)
NULL == "<null>"

Uuid(n) == "uuid-" \o ToString(n)
UuidSpace == {Uuid(n) : n \in 1..MaxUuid}

\* identifiers a caller may ask for: every generated one, and a string that
\* no generator returns
LookupIds == UuidSpace \cup {""}

PersonalityClasses ==
    {[outdoor |-> FALSE, extrovert |-> FALSE], [outdoor |-> TRUE, extrovert |-> FALSE]}

\* what a caller sends to EditPost
Edits ==
    {[description |-> "walked the dog", image |-> ""],
     [description |-> "", image |-> "x.png"]}

IMAGE_UNUPLOADED == "glitch-white-animation.gif"
IMAGE_FAILED == "glitch-red-animation.gif"

MsPerSecond == 1000
MsPerDay == 86400000
TickMs == (7 * MsPerDay) \div 2

----------------------------------------------------------------------------
(* date-fns, for a process running in UTC.  1970-01-01 was a Thursday. *)

getDay(t) == (4 + (t \div MsPerDay)) % 7

addDays(t, n) == t + n * MsPerDay

nextDay_SameDay(t, day) ==
    LET delta == day - getDay(t)
    IN  addDays(t, IF delta < 0 THEN delta + 7 ELSE delta)

nextDay(t, day) ==
    LET delta == day - getDay(t)
    IN  addDays(t, IF delta <= 0 THEN delta + 7 ELSE delta)

nextSunday(t) == nextDay(t, 0)

getUnixTime(t) == t \div MsPerSecond

fromUnixTime(s) == s * MsPerSecond

isBefore(t1, t2) == t1 < t2

----------------------------------------------------------------------------
(* Outcome of an awaited call: a value, or a thrown Error *)

Ok(v) == [outcome |-> "ok", error |-> "", value |-> v]
Throw(msg) == [outcome |-> "throw", error |-> msg, value |-> <<>>]

\* `x | null` is a sequence of length at most one
Some(x) == <<x>>
None == <<>>

----------------------------------------------------------------------------
(* Entities and domain services *)

\* v4 UUIDs do not repeat; the n-th one handed out is named uuid-n
createV4Uuid ==
    IF Cardinality(issued) < MaxUuid THEN {Uuid(Cardinality(issued) + 1)} ELSE {}

createUser_DropsClass(uuid, personalityClass) ==
    [id |-> uuid,
     personalityClass |-> [outdoor |-> FALSE, extrovert |-> FALSE]]

createUser(uuid, personalityClass) ==
    [id |-> uuid, personalityClass |-> personalityClass]

BoolText(b) == IF b THEN "true" ELSE "false"

getTitle(personalityClass) ==
    "mock(class: {outdoor:" \o BoolText(personalityClass.outdoor)
        \o ",extrovert:" \o BoolText(personalityClass.extrovert) \o "})"

getDeadline(t) == getUnixTime(addDays(nextSunday(t), 1))

createPost_OwnsItself(uuid, ownerId, personalityClass, t) ==
    [id |-> uuid,
     title |-> getTitle(personalityClass),
     description |-> "",
     deadline |-> getDeadline(t),
     image |-> NULL,
     owner |-> uuid]

createPost(uuid, ownerId, personalityClass, t) ==
    [id |-> uuid,
     title |-> getTitle(personalityClass),
     description |-> "",
     deadline |-> getDeadline(t),
     image |-> NULL,
     owner |-> ownerId]

changeImage(post, image) == [post EXCEPT !.image = image]

changeDescription(post, description) ==
    [post EXCEPT !.description = description]

----------------------------------------------------------------------------
(* JavaScript Map keyed by the entity's id, in insertion order *)

Matches(store, id) == {i \in 1..Len(store) : store[i].id = id}

First(S) == CHOOSE i \in S : \A j \in S : i <= j

MapGet(map, id) ==
    IF Matches(map, id) = {} THEN None ELSE Some(map[First(Matches(map, id))])

MapSet(map, entity) ==
    IF Matches(map, entity.id) = {}
    THEN Append(map, entity)
    ELSE [map EXCEPT ![First(Matches(map, entity.id))] = entity]

----------------------------------------------------------------------------
(* MongoDB collection: no unique index on `id` (the migration only creates *)
(* the two collections)                                                    *)

insertOne(coll, doc) == Append(coll, doc)

SetFields_KeepsDescription(doc, set) ==
    [f \in DOMAIN doc \cup DOMAIN set |->
        IF f \in DOMAIN set /\ f # "description" THEN set[f] ELSE doc[f]]

SetFields(doc, set) ==
    [f \in DOMAIN doc \cup DOMAIN set |->
        IF f \in DOMAIN set THEN set[f] ELSE doc[f]]

updateOne_AsInsert(coll, id, set) == Append(coll, set)

\* updateOne(filter, {$set: set}) without the upsert option
updateOne(coll, id, set) ==
    IF Matches(coll, id) = {}
    THEN coll
    ELSE [coll EXCEPT ![First(Matches(coll, id))] = SetFields(@, set)]

findOne(coll, id) ==
    IF Matches(coll, id) = {} THEN None ELSE Some(coll[First(Matches(coll, id))])

OwnedBy(ownerId, doc) == doc.owner = ownerId

find(coll, ownerId) == SelectSeq(coll, LAMBDA doc : OwnedBy(ownerId, doc))

PendingOp(op, id, doc) == [op |-> op, id |-> id, doc |-> doc]

Issue(pd, op) == pd (+) SetToBag({op})

\* what the server does with an operation when it arrives
ApplyOp(coll, op) ==
    IF op.op = "insertOne"
    THEN insertOne(coll, op.doc)
    ELSE updateOne(coll, op.id, op.doc)

----------------------------------------------------------------------------
(* Repositories.  A store is passed in and the new store handed back; a   *)
(* find returns Ok(...) or Throw(...).                                     *)

MemoryUserRepository_create(us, newUser) == MapSet(us, newUser)

MemoryUserRepository_findById(us, id) == Ok(MapGet(us, id))

\* the insertOne is awaited: the document is stored when create returns
MongoDBUserRepository_create(us, user) == insertOne(us, user)

MongoDBUserRepository_findById_AnyUser(us, id) ==
    IF us = <<>> THEN Throw("No such user") ELSE Ok(Some(us[1]))

MongoDBUserRepository_findById(us, id) ==
    LET result == findOne(us, id)
    IN  IF result = None THEN Throw("No such user") ELSE Ok(result)

MemoryPostRepository_create(ps, pd, newPost) ==
    [posts |-> MapSet(ps, newPost), pending |-> pd]

MemoryPostRepository_put(ps, pd, post) ==
    [posts |-> MapSet(ps, post), pending |-> pd]

MemoryPostRepository_findById(ps, postId) == Ok(MapGet(ps, postId))

MemoryPostRepository_findByOwnerId(ps, id) ==
    Ok(SelectSeq(ps, LAMBDA post : post.owner = id))

\* the insertOne is not awaited: create returns with the insert in flight
MongoDBPostRepository_create(ps, pd, post) ==
    [posts |-> ps, pending |-> Issue(pd, PendingOp("insertOne", post.id, post))]

\* the updateOne is not awaited: put returns with the update in flight
MongoDBPostRepository_put(ps, pd, post) ==
    [posts |-> ps, pending |-> Issue(pd, PendingOp("updateOne", post.id, post))]

MongoDBPostRepository_findById(ps, postId) ==
    LET result == findOne(ps, postId)
    IN  IF result = None THEN Throw("No such post") ELSE Ok(result)

MongoDBPostRepository_findByOwnerId(ps, userId) == Ok(find(ps, userId))

\* the container's registration of "UserRepository" and "PostRepository"
UserRepository_create(us, user) ==
    IF backend = "memory"
    THEN MemoryUserRepository_create(us, user)
    ELSE MongoDBUserRepository_create(us, user)

UserRepository_findById(us, id) ==
    IF backend = "memory"
    THEN MemoryUserRepository_findById(us, id)
    ELSE MongoDBUserRepository_findById(us, id)

PostRepository_create(ps, pd, post) ==
    IF backend = "memory"
    THEN MemoryPostRepository_create(ps, pd, post)
    ELSE MongoDBPostRepository_create(ps, pd, post)

PostRepository_put(ps, pd, post) ==
    IF backend = "memory"
    THEN MemoryPostRepository_put(ps, pd, post)
    ELSE MongoDBPostRepository_put(ps, pd, post)

PostRepository_findById(ps, postId) ==
    IF backend = "memory"
    THEN MemoryPostRepository_findById(ps, postId)
    ELSE MongoDBPostRepository_findById(ps, postId)

PostRepository_findByOwnerId(ps, userId) ==
    IF backend = "memory"
    THEN MemoryPostRepository_findByOwnerId(ps, userId)
    ELSE MongoDBPostRepository_findByOwnerId(ps, userId)

\* room for one more operation in flight (the in-memory backend has none)
CanIssue == backend = "memory" \/ BagCardinality(pending) < MaxPending

----------------------------------------------------------------------------
(* The record of a step: what was called, with what, how it ended, and    *)
(* the stores as they were when it was called.  `written` is the latest   *)
(* write the post store took, as <<kind, document>>; `repeat` says that   *)
(* this step's write is the same write again.                              *)

NoWrite == <<>>

\* the in-memory repository writes during the call
WriteNow(kind, post) == IF backend = "memory" THEN <<kind, post>> ELSE NoWrite

Step(op, input, r, write) ==
    [op |-> op, input |-> input,
     outcome |-> r.outcome, error |-> r.error, value |-> r.value,
     preUsers |-> users, prePosts |-> posts, prePending |-> pending,
     written |-> IF write = NoWrite THEN last.written ELSE write,
     repeat |-> write # NoWrite /\ write = last.written]

NoStep ==
    [op |-> "init", input |-> <<>>,
     outcome |-> "ok", error |-> "", value |-> <<>>,
     preUsers |-> <<>>, prePosts |-> <<>>, prePending |-> EmptyBag,
     written |-> NoWrite, repeat |-> FALSE]

\* requests the server is handling at once: an async handler gives way to
\* the others at each await
Callers == {"a", "b"}

\* no EditPost call of this caller has started
IdleCall ==
    [pc |-> "idle", input |-> <<>>, post |-> <<>>, overlapped |-> FALSE,
     outcome |-> "", error |-> ""]

----------------------------------------------------------------------------
(* Usecase interactors *)

CreateAccount(personalityClass) ==
    \E uuid \in createV4Uuid :
        LET newUser == createUser(uuid, personalityClass)
        IN  /\ users' = UserRepository_create(users, newUser)
            /\ issued' = issued \cup {uuid}
            /\ last' = Step("CreateAccount",
                            [personalityClass |-> personalityClass],
                            Ok(Some([id |-> newUser.id])), NoWrite)
            /\ UNCHANGED <<calls, backend, posts, pending, now, created>>

AddNewPost(userId) ==
    LET found == UserRepository_findById(users, userId)
        input == [userId |-> userId]
    IN  IF found.outcome = "throw"
        THEN /\ last' = Step("AddNewPost", input, found, NoWrite)
             /\ UNCHANGED <<calls, backend, users, posts, pending, issued, now, created>>
        ELSE IF found.value = None
        THEN /\ last' = Step("AddNewPost", input, Throw("User not found"), NoWrite)
             /\ UNCHANGED <<calls, backend, users, posts, pending, issued, now, created>>
        ELSE /\ CanIssue
             /\ \E uuid \in createV4Uuid :
                  LET post == createPost(uuid, userId,
                                         found.value[1].personalityClass, now)
                      w == PostRepository_create(posts, pending, post)
                  IN  /\ posts' = w.posts
                      /\ pending' = w.pending
                      /\ issued' = issued \cup {uuid}
                      /\ created' = created \cup {[id |-> post.id, owner |-> userId]}
                      /\ last' = Step("AddNewPost", input, Ok(Some(post)),
                                      WriteNow("create", post))
             /\ UNCHANGED <<calls, backend, users, now>>

GetUserTimeline(userId) ==
    /\ last' = Step("GetUserTimeline", [userId |-> userId],
                    PostRepository_findByOwnerId(posts, userId), NoWrite)
    /\ UNCHANGED <<calls, backend, users, posts, pending, issued, now, created>>

EditPost(postId, description, image) ==
    LET found == PostRepository_findById(posts, postId)
        input == [postId |-> postId, description |-> description, image |-> image]
    IN  IF found.outcome = "throw"
        THEN /\ last' = Step("EditPost", input, found, NoWrite)
             /\ UNCHANGED <<calls, backend, users, posts, pending, issued, now, created>>
        ELSE IF found.value = None
        THEN /\ last' = Step("EditPost", input, Throw("Post not found"), NoWrite)
             /\ UNCHANGED <<calls, backend, users, posts, pending, issued, now, created>>
        ELSE /\ CanIssue
             /\ LET post == changeDescription(changeImage(found.value[1], image),
                                              description)
                    w == PostRepository_put(posts, pending, post)
                IN  /\ posts' = w.posts
                    /\ pending' = w.pending
                    /\ last' = Step("EditPost", input, Ok(Some(post)),
                                    WriteNow("put", post))
             /\ UNCHANGED <<calls, backend, users, issued, now, created>>

\* the MongoDB server applies one of the operations in flight, in any order
StoreApply ==
    \E op \in BagToSet(pending) :
        /\ posts' = ApplyOp(posts, op)
        /\ pending' = pending (-) SetToBag({op})
        /\ last' = Step(op.op, op.doc, Ok(None), <<op.op, op.doc>>)
        /\ UNCHANGED <<calls, backend, users, issued, now, created>>

Tick ==
    /\ now + TickMs <= MaxTicks * TickMs
    /\ now' = now + TickMs
    /\ UNCHANGED <<calls, backend, users, posts, pending, issued, created, last>>

Init ==
    /\ backend \in {"memory", "mongodb"}
    /\ users = <<>>
    /\ posts = <<>>
    /\ pending = EmptyBag
    /\ issued = {}
    /\ now = 0
    /\ created = {}
    /\ calls = [c \in Callers |-> IdleCall]
    /\ last = NoStep

Next ==
    \/ \E personalityClass \in PersonalityClasses : CreateAccount(personalityClass)
    \/ \E userId \in LookupIds : AddNewPost(userId)
    \/ \E userId \in LookupIds : GetUserTimeline(userId)
    \/ \E postId \in LookupIds, edit \in Edits :
          EditPost(postId, edit.description, edit.image)
    \/ StoreApply
    \/ Tick

Spec == Init /\ [][Next]_vars

----------------------------------------------------------------------------
(* The repositories called directly (the classes are exported and the     *)
(* tests call them).  Entities come from the domain services, so a        *)
(* created entity carries a fresh identifier.                              *)

RepoUserCreate(personalityClass) ==
    \E uuid \in createV4Uuid :
        LET newUser == createUser(uuid, personalityClass)
        IN  /\ users' = UserRepository_create(users, newUser)
            /\ issued' = issued \cup {uuid}
            /\ last' = Step("UserRepository.create", newUser, Ok(None), NoWrite)
            /\ UNCHANGED <<calls, backend, posts, pending, now, created>>

RepoUserFindById(id) ==
    /\ last' = Step("UserRepository.findById", [id |-> id],
                    UserRepository_findById(users, id), NoWrite)
    /\ UNCHANGED <<calls, backend, users, posts, pending, issued, now, created>>

\* the class only decides the title
PostClass == [outdoor |-> TRUE, extrovert |-> FALSE]

RepoPostCreate(ownerId) ==
    /\ CanIssue
    /\ \E uuid \in createV4Uuid :
        LET post == createPost(uuid, ownerId, PostClass, now)
            w == PostRepository_create(posts, pending, post)
        IN  /\ posts' = w.posts
            /\ pending' = w.pending
            /\ issued' = issued \cup {uuid}
            /\ last' = Step("PostRepository.create", post, Ok(None),
                            WriteNow("create", post))
    /\ UNCHANGED <<calls, backend, users, now, created>>

\* the posts a caller can hold: one read from the store, or one fresh from
\* PostService.createPost, as it is or edited
Edited(post) ==
    {post} \cup {changeDescription(changeImage(post, e.image), e.description) :
                    e \in Edits}

\* a repository takes any string as an owner
Owners == {"owner-a", "owner-b"}

PutInputs ==
    UNION {Edited(posts[i]) : i \in 1..Len(posts)}
    \cup {createPost(uuid, "owner-a", PostClass, now) : uuid \in createV4Uuid}

RepoPostPut(post) ==
    /\ CanIssue
    /\ LET w == PostRepository_put(posts, pending, post)
       IN  /\ posts' = w.posts
           /\ pending' = w.pending
    /\ issued' = issued \cup {post.id}
    /\ last' = Step("PostRepository.put", post, Ok(None), WriteNow("put", post))
    /\ UNCHANGED <<calls, backend, users, now, created>>

RepoPostFindById(postId) ==
    /\ last' = Step("PostRepository.findById", [id |-> postId],
                    PostRepository_findById(posts, postId), NoWrite)
    /\ UNCHANGED <<calls, backend, users, posts, pending, issued, now, created>>

RepoPostFindByOwnerId(userId) ==
    /\ last' = Step("PostRepository.findByOwnerId", [id |-> userId],
                    PostRepository_findByOwnerId(posts, userId), NoWrite)
    /\ UNCHANGED <<calls, backend, users, posts, pending, issued, now, created>>

NextRepo ==
    \/ \E personalityClass \in PersonalityClasses : RepoUserCreate(personalityClass)
    \/ \E id \in LookupIds : RepoUserFindById(id)
    \/ \E ownerId \in Owners : RepoPostCreate(ownerId)
    \/ \E post \in PutInputs : RepoPostPut(post)
    \/ \E postId \in LookupIds : RepoPostFindById(postId)
    \/ \E userId \in Owners \cup {""} : RepoPostFindByOwnerId(userId)
    \/ StoreApply

SpecRepo == Init /\ [][NextRepo]_vars

\* the post repository's write path alone: it reaches every post store and
\* every bag of operations in flight that NextRepo reaches
NextPut ==
    \/ \E ownerId \in Owners : RepoPostCreate(ownerId)
    \/ \E post \in PutInputs : RepoPostPut(post)
    \/ StoreApply

SpecPut == Init /\ [][NextPut]_vars

----------------------------------------------------------------------------
(* The usecases when MongoDB operations can fail (the server is down, the *)
(* connection drops).  An awaited operation that fails rejects the await  *)
(* and so the handler; an operation in flight that fails rejects a        *)
(* promise nobody holds.  A Map operation does not fail.                  *)

STORAGE_FAILURE == "MongoNetworkError"

\* createUser has run; the awaited insertOne rejects
CreateAccountStoreFails(personalityClass) ==
    /\ backend = "mongodb"
    /\ \E uuid \in createV4Uuid :
        /\ issued' = issued \cup {uuid}
        /\ last' = Step("CreateAccount", [personalityClass |-> personalityClass],
                        Throw(STORAGE_FAILURE), NoWrite)
    /\ UNCHANGED <<calls, backend, users, posts, pending, now, created>>

\* the awaited findOne on the user collection rejects
AddNewPostStoreFails(userId) ==
    /\ backend = "mongodb"
    /\ last' = Step("AddNewPost", [userId |-> userId],
                    Throw(STORAGE_FAILURE), NoWrite)
    /\ UNCHANGED <<calls, backend, users, posts, pending, issued, now, created>>

\* the awaited find(...).toArray() rejects
GetUserTimelineStoreFails(userId) ==
    /\ backend = "mongodb"
    /\ last' = Step("GetUserTimeline", [userId |-> userId],
                    Throw(STORAGE_FAILURE), NoWrite)
    /\ UNCHANGED <<calls, backend, users, posts, pending, issued, now, created>>

\* the awaited findOne on the post collection rejects
EditPostStoreFails(postId, description, image) ==
    /\ backend = "mongodb"
    /\ last' = Step("EditPost",
                    [postId |-> postId, description |-> description,
                     image |-> image],
                    Throw(STORAGE_FAILURE), NoWrite)
    /\ UNCHANGED <<calls, backend, users, posts, pending, issued, now, created>>

\* an insertOne or updateOne in flight fails: the collection keeps its
\* documents and the promise of the operation rejects
StoreFail ==
    \E op \in BagToSet(pending) :
        /\ pending' = pending (-) SetToBag({op})
        /\ last' = Step(op.op, op.doc, Throw(STORAGE_FAILURE), NoWrite)
        /\ UNCHANGED <<calls, backend, users, posts, issued, now, created>>

NextFault ==
    \/ Next
    \/ \E personalityClass \in PersonalityClasses :
          CreateAccountStoreFails(personalityClass)
    \/ \E userId \in LookupIds : AddNewPostStoreFails(userId)
    \/ \E userId \in LookupIds : GetUserTimelineStoreFails(userId)
    \/ \E postId \in LookupIds, edit \in Edits :
          EditPostStoreFails(postId, edit.description, edit.image)
    \/ StoreFail

SpecFault == Init /\ [][NextFault]_vars

----------------------------------------------------------------------------
(* EditPost handled for several requests at once.  The handler gives way  *)
(* at `await findById` and at `await put`: between the two, and nowhere   *)
(* else, another request's steps can run.                                 *)

\* the Post the handler holds once findById has answered: for MongoDB an
\* object built from the document read; for the Map the stored object
\* itself, which another handler may have mutated in the meantime
HeldPost(c) ==
    IF backend = "memory"
    THEN MapGet(posts, calls[c].input.postId)[1]
    ELSE calls[c].post[1]

InProgress(c) == calls[c].pc = "found"

\* up to the first await: findById is called and answers
EditPostFind(c, postId, description, image) ==
    LET found == PostRepository_findById(posts, postId)
        input == [postId |-> postId, description |-> description, image |-> image]
        failure == IF found.outcome = "throw" THEN found ELSE Throw("Post not found")
        concurrent == \E o \in Callers \ {c} : InProgress(o)
    IN  /\ calls[c].pc = "idle"
        /\ IF found.outcome = "throw" \/ found.value = None
           THEN /\ calls' = [calls EXCEPT ![c] =
                               [pc |-> "done", input |-> input, post |-> None,
                                overlapped |-> concurrent,
                                outcome |-> "throw", error |-> failure.error]]
                /\ last' = Step("EditPost", input, failure, NoWrite)
           ELSE /\ calls' = [o \in Callers |->
                               IF o = c
                               THEN [pc |-> "found", input |-> input,
                                     post |-> found.value,
                                     overlapped |-> concurrent,
                                     outcome |-> "", error |-> ""]
                               ELSE IF InProgress(o)
                               THEN [calls[o] EXCEPT !.overlapped = TRUE]
                               ELSE calls[o]]
                /\ UNCHANGED last
        /\ UNCHANGED <<backend, users, posts, pending, issued, now, created>>

\* from the answer of findById to the return: changeImage,
\* changeDescription and put
EditPostPut(c) ==
    /\ InProgress(c)
    /\ CanIssue
    /\ LET input == calls[c].input
           post == changeDescription(changeImage(HeldPost(c), input.image),
                                     input.description)
           w == PostRepository_put(posts, pending, post)
       IN  /\ posts' = w.posts
           /\ pending' = w.pending
           /\ calls' = [calls EXCEPT ![c].pc = "done", ![c].post = Some(post),
                                     ![c].outcome = "ok"]
           /\ last' = Step("EditPost", input, Ok(Some(post)), WriteNow("put", post))
    /\ UNCHANGED <<backend, users, issued, now, created>>

NextEdit ==
    \/ \E personalityClass \in PersonalityClasses : CreateAccount(personalityClass)
    \/ \E userId \in LookupIds : AddNewPost(userId)
    \/ \E c \in Callers, postId \in LookupIds, edit \in Edits :
          EditPostFind(c, postId, edit.description, edit.image)
    \/ \E c \in Callers : EditPostPut(c)
    \/ StoreApply

SpecEdit == Init /\ [][NextEdit]_vars

----------------------------------------------------------------------------
(* Controller.postEntityToPostDTO, applied to the entities the usecases   *)
(* can return and to times around their deadlines                          *)

postEntityToPostDTO_Swapped(item, nowDate) ==
    [id |-> item.id,
     title |-> item.title,
     description |-> item.description,
     image |-> IF item.image # NULL
               THEN item.image
               ELSE IF isBefore(fromUnixTime(item.deadline), nowDate)
                    THEN IMAGE_UNUPLOADED
                    ELSE IMAGE_FAILED,
     deadline |-> item.deadline,
     owner |-> item.owner]

postEntityToPostDTO(item, nowDate) ==
    [id |-> item.id,
     title |-> item.title,
     description |-> item.description,
     image |-> IF item.image # NULL
               THEN item.image
               ELSE IF isBefore(nowDate, fromUnixTime(item.deadline))
                    THEN IMAGE_UNUPLOADED
                    ELSE IMAGE_FAILED,
     deadline |-> item.deadline,
     owner |-> item.owner]

CreationTimes == {0, TickMs}

PostEntities ==
    UNION {Edited(createPost(Uuid(2), Uuid(1), personalityClass, t)) :
             personalityClass \in PersonalityClasses, t \in CreationTimes}
    \cup {changeImage(createPost(Uuid(2), Uuid(1), personalityClass, t), "") :
             personalityClass \in PersonalityClasses, t \in CreationTimes}

Offsets == {0 - MsPerDay, 0 - MsPerSecond, 0 - 1, 0, 1, MsPerSecond, MsPerDay}

NowDates(item) == {fromUnixTime(item.deadline) + d : d \in Offsets}

ControllerMap ==
    \E item \in PostEntities :
        \E nowDate \in NowDates(item) :
            /\ last' = Step("postEntityToPostDTO",
                            [item |-> item, nowDate |-> nowDate],
                            Ok(Some(postEntityToPostDTO(item, nowDate))), NoWrite)
            /\ UNCHANGED <<calls, backend, users, posts, pending, issued, now, created>>

SpecController == Init /\ [][ControllerMap]_vars

----------------------------------------------------------------------------
(* PostService.createPost at any weekday and time of day *)

DaysOfWeek == 0..6

\* milliseconds into the day: midnight, the edges of a second, mid-day, the
\* last second and the last millisecond
TimesOfDay ==
    {0, 1, MsPerSecond - 1, MsPerSecond, MsPerDay \div 2 + 789,
     MsPerDay - MsPerSecond, MsPerDay - 1}

CreationInstants == {d * MsPerDay + ms : d \in DaysOfWeek, ms \in TimesOfDay}

InitAnyTime ==
    /\ backend \in {"memory", "mongodb"}
    /\ users = <<>>
    /\ posts = <<>>
    /\ pending = EmptyBag
    /\ issued = {}
    /\ now \in CreationInstants
    /\ created = {}
    /\ calls = [c \in Callers |-> IdleCall]
    /\ last = NoStep

PostServiceCreatePost(ownerId, personalityClass) ==
    \E uuid \in createV4Uuid :
        /\ issued' = issued \cup {uuid}
        /\ last' = Step("PostService.createPost",
                        [ownerId |-> ownerId,
                         personalityClass |-> personalityClass, t |-> now],
                        Ok(Some(createPost(uuid, ownerId, personalityClass, now))),
                        NoWrite)
        /\ UNCHANGED <<calls, backend, users, posts, pending, now, created>>

NextService ==
    \E ownerId \in Owners, personalityClass \in PersonalityClasses :
        PostServiceCreatePost(ownerId, personalityClass)

SpecService == InitAnyTime /\ [][NextService]_vars

----------------------------------------------------------------------------
(* Claims *)

Ids(store) == {store[i].id : i \in 1..Len(store)}

Docs(store) == {store[i] : i \in 1..Len(store)}

Stored(store, id) == Matches(store, id) # {}

\* C1: AddNewPost called with the id of a stored user succeeds, and when it
\* has returned the post store holds every post it held before, unchanged,
\* plus exactly one new post with a fresh id, the given owner and an empty
\* description.
C1_AddNewPostPersistsOnePost ==
    (last.op = "AddNewPost" /\ Stored(last.preUsers, last.input.userId)) =>
        /\ last.outcome = "ok"
        /\ Len(posts) = Len(last.prePosts) + 1
        /\ Docs(posts) = Docs(last.prePosts) \cup {last.value[1]}
        /\ last.value[1].id \notin Ids(last.prePosts)
        /\ last.value[1].owner = last.input.userId
        /\ last.value[1].description = ""

FailedAndWroteNothing ==
    /\ last.outcome = "throw"
    /\ users = last.preUsers
    /\ posts = last.prePosts
    /\ pending = last.prePending

\* C2: AddNewPost with a userId that matches no stored user, and EditPost
\* with a postId that matches no stored post, end in a failure for the
\* caller, leave both stores as they were and issue no write, with either
\* repository backend.
C2_AbsentEntityFailsAndWritesNothing ==
    /\ (last.op = "AddNewPost" /\ ~Stored(last.preUsers, last.input.userId))
          => FailedAndWroteNothing
    /\ (last.op = "EditPost" /\ ~Stored(last.prePosts, last.input.postId))
          => FailedAndWroteNothing

\* C2's case: with the MongoDB backend and both stores non-empty, AddNewPost
\* for an unknown user has just failed.
C2_Witness ==
    /\ backend = "mongodb"
    /\ last.op = "AddNewPost"
    /\ ~Stored(last.preUsers, last.input.userId)
    /\ last.outcome = "throw"
    /\ users # <<>>
    /\ posts # <<>>

\* C3: EditPost on a stored post succeeds; the returned post and the post
\* then held in the store have the description and image of the input and
\* the id, owner, title and deadline the post had before; every other
\* stored post is unchanged.
C3_EditPostPersistsEdit ==
    (last.op = "EditPost" /\ Stored(last.prePosts, last.input.postId)) =>
        LET old == last.prePosts[First(Matches(last.prePosts, last.input.postId))]
            edited == [old EXCEPT !.description = last.input.description,
                                  !.image = last.input.image]
        IN  /\ last.outcome = "ok"
            /\ last.value = Some(edited)
            /\ Len(posts) = Len(last.prePosts)
            /\ \A i \in 1..Len(posts) :
                  posts[i] = IF last.prePosts[i].id = last.input.postId
                             THEN edited
                             ELSE last.prePosts[i]

\* C6: findByOwnerId(u), and GetUserTimeline for u, return exactly the posts
\* AddNewPost created with owner u, each once, and nothing for an owner
\* without posts or an unknown userId; the call never fails.
OwnedIds(userId) == {c.id : c \in {d \in created : d.owner = userId}}

ExactlyOwned(result, userId) ==
    /\ Len(result) = Cardinality(OwnedIds(userId))
    /\ Ids(result) = OwnedIds(userId)
    /\ \A i \in 1..Len(result) : result[i].owner = userId

C6_FindByOwnerIdIsExact ==
    /\ \A userId \in LookupIds :
          LET r == PostRepository_findByOwnerId(posts, userId)
          IN  r.outcome = "ok" /\ ExactlyOwned(r.value, userId)
    /\ last.op = "GetUserTimeline" =>
          last.outcome = "ok" /\ ExactlyOwned(last.value, last.input.userId)

\* C10: CreateAccount with personality class P never fails; the id it
\* returns is non-empty and is the id of no user stored before; afterwards
\* UserRepository.findById(id) returns a user with that id and class P; the
\* users stored before the call are unchanged.
C10_CreateAccountStoresNewUser ==
    last.op = "CreateAccount" =>
        /\ last.outcome = "ok"
        /\ last.value[1].id # ""
        /\ last.value[1].id \notin Ids(last.preUsers)
        /\ UserRepository_findById(users, last.value[1].id)
              = Ok(Some([id |-> last.value[1].id,
                         personalityClass |-> last.input.personalityClass]))
        /\ Len(users) >= Len(last.preUsers)
        /\ \A i \in 1..Len(last.preUsers) : users[i] = last.preUsers[i]

\* C10's case: CreateAccount has returned with a user already stored, and
\* the new user's class differs from that user's.
C10_Witness ==
    /\ last.op = "CreateAccount"
    /\ last.preUsers # <<>>
    /\ last.input.personalityClass # last.preUsers[1].personalityClass
    /\ Len(users) = Len(last.preUsers) + 1

\* C4: findById on an id that is not stored returns null and does not throw,
\* for the user and the post repository and for both backends.
C4_FindByIdAbsentReturnsNull ==
    /\ (last.op = "UserRepository.findById" /\ ~Stored(users, last.input.id))
          => (last.outcome = "ok" /\ last.value = None)
    /\ (last.op = "PostRepository.findById" /\ ~Stored(posts, last.input.id))
          => (last.outcome = "ok" /\ last.value = None)

\* C5: once create(E) has returned, findById(E.id) returns an entity with the
\* field values of E, for the user and the post repository and for both
\* backends.
C5_CreateThenFindByIdRoundTrip ==
    /\ last.op = "UserRepository.create"
          => UserRepository_findById(users, last.input.id) = Ok(Some(last.input))
    /\ last.op = "PostRepository.create"
          => PostRepository_findById(posts, last.input.id) = Ok(Some(last.input))

\* the post store has taken the write of put(P): during the call for the
\* in-memory backend, when the server applies the update for MongoDB
PutWritten == last.written # NoWrite /\ last.written[1] \in {"put", "updateOne"}

PutWasLatestStep == last.op \in {"PostRepository.put", "updateOne"}

\* C8: put is an upsert: after put(P), for an id not yet stored as for a
\* stored one, findById(P.id) returns P, with both backends.
C8_PutIsUpsert ==
    (PutWasLatestStep /\ PutWritten) =>
        PostRepository_findById(posts, last.written[2].id)
            = Ok(Some(last.written[2]))

\* what callers can observe of the post store
Observable(ps) ==
    [byId |-> [id \in LookupIds |-> PostRepository_findById(ps, id)],
     byOwner |-> [userId \in Owners \cup LookupIds |->
                     PostRepository_findByOwnerId(ps, userId)]]

\* C9: put(P) twice in a row leaves the post store in the same observable
\* state (findById and findByOwnerId for every id) as put(P) once: when the
\* store takes the write of put(P) a second time running, every lookup
\* answers as it did before that second write.
C9_PutTwiceIsPutOnce ==
    (PutWasLatestStep /\ PutWritten /\ last.repeat) =>
        Observable(posts) = Observable(last.prePosts)

\* C9's case: the MongoDB server has applied the update of put(P) twice
\* running, to a post it holds.
C9_Witness ==
    /\ backend = "mongodb"
    /\ last.op = "updateOne"
    /\ last.repeat
    /\ Stored(posts, last.input.id)
    /\ last.input.description # ""

\* C7: the controller maps a post with an image to that image whatever the
\* time; a post without an image to the "unuploaded" placeholder before its
\* deadline and to the "failed" placeholder past it; the other fields pass
\* through unchanged.
C7_ImageFallback ==
    last.op = "postEntityToPostDTO" =>
        LET item == last.input.item
            nowDate == last.input.nowDate
            dto == last.value[1]
        IN  /\ item.image # NULL => dto.image = item.image
            /\ (item.image = NULL /\ nowDate < item.deadline * MsPerSecond)
                  => dto.image = IMAGE_UNUPLOADED
            /\ (item.image = NULL /\ nowDate > item.deadline * MsPerSecond)
                  => dto.image = IMAGE_FAILED
            /\ dto.id = item.id
            /\ dto.title = item.title
            /\ dto.description = item.description
            /\ dto.deadline = item.deadline
            /\ dto.owner = item.owner
            /\ DOMAIN dto = DOMAIN item

\* C7's case: a post without an image was mapped one millisecond past its
\* deadline and shows the "failed" placeholder.
C7_Witness ==
    /\ last.op = "postEntityToPostDTO"
    /\ last.input.item.image = NULL
    /\ last.input.nowDate = last.input.item.deadline * MsPerSecond + 1
    /\ last.value[1].image = IMAGE_FAILED

\* 1970-01-04, day 3 of the epoch, was a Sunday
IsSunday(t) == ((t \div MsPerDay) - 3) % 7 = 0

\* the first instant after t that falls on a Sunday at t's time of day
SundayAfter(t) ==
    CHOOSE s \in {t + k * MsPerDay : k \in 1..7} : IsSunday(s)

\* C11: for every creation time t, the deadline createPost computes is the
\* next Sunday strictly after t plus exactly one day, in seconds, and so is
\* strictly later than t, also when t falls on a Sunday.
C11_DeadlineIsDayAfterNextSunday ==
    last.op = "PostService.createPost" =>
        LET t == last.input.t
            deadline == last.value[1].deadline
            due == SundayAfter(t) + MsPerDay
        IN  /\ deadline * MsPerSecond <= due
            /\ due < (deadline + 1) * MsPerSecond
            /\ t < SundayAfter(t)
            /\ t < deadline * MsPerSecond

\* C11's case: a post was created on a Sunday, and its deadline is the
\* Monday eight days later.
C11_Witness ==
    /\ last.op = "PostService.createPost"
    /\ IsSunday(last.input.t)
    /\ last.value[1].deadline * MsPerSecond > last.input.t + 7 * MsPerDay

UsecaseNames == {"CreateAccount", "AddNewPost", "GetUserTimeline", "EditPost"}

\* C12: no storage failure is silently swallowed: when a store operation
\* that a repository issued fails, the failure is the outcome of the usecase
\* call that issued it, which therefore does not report success, with both
\* backends.
C12_StorageFailureReachesCaller ==
    last.error = STORAGE_FAILURE =>
        /\ last.op \in UsecaseNames
        /\ last.outcome = "throw"

\* C13: each usecase runs to completion before the next request is
\* processed: when AddNewPost or EditPost has returned, its write is in the
\* store, so the GetUserTimeline or EditPost the caller issues next observes
\* the new post or the edited fields, with both backends.
C13_NextRequestObservesWrite ==
    [][(last.op \in {"AddNewPost", "EditPost"} /\ last.outcome = "ok") =>
          LET post == last.value[1]
          IN  /\ (last'.op = "GetUserTimeline" /\ last'.input.userId = post.owner)
                    => (last'.outcome = "ok" /\ post \in Docs(last'.value))
              /\ (last'.op = "EditPost" /\ last'.input.postId = post.id)
                    => /\ last'.outcome = "ok"
                       /\ last'.value[1] =
                             changeDescription(
                                 changeImage(post, last'.input.image),
                                 last'.input.description)]_vars

\* both callers' EditPost calls have returned, and both were on this post
BothEdited(postId) ==
    \A c \in Callers : calls[c].pc = "done" /\ calls[c].input.postId = postId

\* no update of this post is still in flight
Settled(postId) == \A op \in BagToSet(pending) : op.id # postId

EditOf(post) == [description |-> post.description, image |-> post.image]

C15_PostOwnerIsStoredUser ==
    /\ \A i \in 1..Len(posts) : Stored(users, posts[i].owner)
    /\ \A op \in BagToSet(pending) : Stored(users, op.doc.owner)

\* C15's case: a post has been created and then edited, and the edited
\* post is in the store.
C15_Witness ==
    /\ Len(posts) > 0
    /\ posts[1].description # ""
    /\ last.written # NoWrite
    /\ last.written[1] \in {"put", "updateOne"}
    /\ Stored(users, posts[1].owner)

====
